---- MODULE Spec2Model ----
(***************************************************************************)
(* fetch-sync-via-deno: a blocking fetch built from a child process.       *)
(*                                                                         *)
(* The bridge (fetchSyncViaDeno) launches a child, waits for it, and       *)
(* reconciles exit status, stdout and stderr into one FetchResult.  The    *)
(* executor (the worker's main) reads its request, performs one fetch and  *)
(* prints one JSON line.  Two generations of each are in the repository:   *)
(*   bridge  "stdin": unnamed/part_000 (spawnSync, request piped on stdin) *)
(*   bridge  "arg"  : src/mod.ts       (Deno.Command, url as argument)     *)
(*   worker  "stdin": src/mod.worker.ts                                    *)
(*   worker  "arg"  : unnamed/part_001                                     *)
(*                                                                         *)
(* JavaScript values are tagged records, so that truthiness, ?? and ?.     *)
(* are computed as the language computes them.  Strings are TLA+ strings;  *)
(* JSON text is real text, built by JSONStringify and read back by         *)
(* JSONParse.  standard error is kept as its sequence of lines (the text   *)
(* split at "\n").                                                         *)
(***************************************************************************)
EXTENDS Integers, Sequences, FiniteSets, TLC

(***************************************************************************)
(* JavaScript values                                                       *)
(***************************************************************************)
Null == [t |-> "null"]
Undef == [t |-> "undefined"]
Num(n) == [t |-> "number", v |-> n]
Str(s) == [t |-> "string", v |-> s]
Bool(b) == [t |-> "boolean", v |-> b]
Obj(f) == [t |-> "object", v |-> f]
Arr(s) == [t |-> "array", v |-> s]
\* new Headers(init): an object whose entries are no own properties
HeadersOf(f) == [t |-> "Headers", v |-> f]

\* {} : the object with no own property
NoProperties == [k \in {} |-> Undef]
EmptyObj == Obj(NoProperties)

IsObj(x) == x.t = "object"
IsStr(x) == x.t = "string"
IsNum(x) == x.t = "number"

\* ToBoolean: what `if (x)`, `x && y`, `x || y`, `!x` and `c ? a : b` test
Truthy(x) ==
    CASE x.t = "null" -> FALSE
      [] x.t = "undefined" -> FALSE
      [] x.t = "number" -> x.v # 0
      [] x.t = "string" -> x.v # ""
      [] x.t = "boolean" -> x.v
      [] OTHER -> TRUE

\* x == null, the test of ?? and ?.
Nullish(x) == x.t \in {"null", "undefined"}

\* a ?? b
Coalesce(a, b) == IF Nullish(a) THEN b ELSE a

\* a || b
OrElse(a, b) == IF Truthy(a) THEN a ELSE b

\* x?.k : undefined on null and undefined, on a missing property and on a
\* primitive, which has no own property of these names
OptGet(x, k) ==
    IF IsObj(x) /\ k \in DOMAIN x.v THEN x.v[k] ELSE Undef

(***************************************************************************)
(* JSON text                                                               *)
(***************************************************************************)
\* property names in the order the object literals of the source list them
KeyOrder ==
    << "url", "options", "method", "status", "statusText", "ok", "headers",
       "body", "error", "content-type", "set-cookie" >>

\* the characters JSON escapes inside a string literal; of the strings of
\* this model only the JSON body of the /get endpoint holds any
Escape(s) ==
    IF s = "{\"message\":\"Success\"}"
    THEN "{\\\"message\\\":\\\"Success\\\"}"
    ELSE s

\* parts.join(",")
JoinComma(parts) ==
    LET f[i \in 0..Len(parts)] ==
            IF i = 0 THEN ""
            ELSE IF i = 1 THEN parts[1]
            ELSE f[i - 1] \o "," \o parts[i]
    IN  f[Len(parts)]

\* JSON.stringify: a property whose value is undefined is left out, and an
\* object without own enumerable properties (a Headers instance) becomes {}
RECURSIVE JSONStringify(_)
JSONStringify(x) ==
    CASE x.t = "null" -> "null"
      [] x.t = "undefined" -> "null"
      [] x.t = "number" -> ToString(x.v)
      [] x.t = "boolean" -> IF x.v THEN "true" ELSE "false"
      [] x.t = "string" -> "\"" \o Escape(x.v) \o "\""
      [] x.t = "Headers" -> "{}"
      [] x.t = "array" ->
           "[" \o JoinComma([i \in 1..Len(x.v) |-> JSONStringify(x.v[i])]) \o "]"
      [] OTHER ->
           LET present(k) == k \in DOMAIN x.v /\ x.v[k] # Undef
               keys == SelectSeq(KeyOrder, present)
           IN  "{" \o JoinComma([i \in 1..Len(keys) |->
                     "\"" \o keys[i] \o "\":" \o JSONStringify(x.v[keys[i]])])
                   \o "}"

(***************************************************************************)
(* The executor (worker main)                                              *)
(***************************************************************************)
\* a response text of 2 MiB, which the model does not spell out
BigBody == "<response text larger than the output buffer>"

\* what the HTTP client hands back for a response: status line, the header
\* collection in the client's iteration order (names lower-cased and sorted
\* by the client, set-cookie once per cookie), and the text of the body
Responses ==
    { [status |-> 200, statusText |-> "OK",
       headers |-> << <<"content-type", "application/json">>,
                      <<"set-cookie", "a=1">>,
                      <<"set-cookie", "b=2">> >>,
       body |-> "{\"message\":\"Success\"}"],
      [status |-> 299, statusText |-> "", headers |-> <<>>, body |-> ""],
      [status |-> 200, statusText |-> "OK", headers |-> <<>>, body |-> BigBody],
      [status |-> 404, statusText |-> "Not Found", headers |-> <<>>,
       body |-> "Responding with 404"],
      [status |-> 500, statusText |-> "Internal Server Error",
       headers |-> <<>>, body |-> "Responding with 500"] }

\* Response.ok of the HTTP client
ResponseOk(resp) == resp.status >= 200 /\ resp.status <= 299

\* what fetch rejects with, and what response.text() rejects with
FetchErrors ==
    { [name |-> "TypeError",
       message |-> "error sending request: dns error: failed to lookup address information"],
      [name |-> "TypeError", message |-> "Invalid URL"] }

BodyErrors ==
    { [name |-> "TypeError", message |-> "error decoding response body"] }

\* `${e.name}: ${e.message}`, also what String(e) and `${e}` give for an Error
ErrorText(e) == e.name \o ": " \o e.message

\* response.headers.forEach((value, key) => { headers[key] = value })
CollectHeaders(pairs) ==
    LET f[i \in 0..Len(pairs)] ==
            IF i = 0 THEN NoProperties
            ELSE (pairs[i][1] :> Str(pairs[i][2])) @@ f[i - 1]
    IN  f[Len(pairs)]

FetchResult(status, statusText, ok, headers, body, error) ==
    Obj([status |-> status, statusText |-> statusText, ok |-> Bool(ok),
         headers |-> headers, body |-> body, error |-> error])

\* the Response object the executor holds once fetch has resolved
ResponseObj(r) ==
    Obj([status |-> Num(r.status), statusText |-> Str(r.statusText),
         ok |-> Bool(ResponseOk(r)), headers |-> r.headers, body |-> r.body])

\* variant: an executor that drops the body it has read (C8 must refute it)
SuccessOutputNoBody(resp, body) ==
    FetchResult(resp.v.status, resp.v.statusText, resp.v.ok.v,
                Obj(CollectHeaders(resp.v.headers)), Null, Null)

\* what the executor prints on each of its paths
SuccessOutput(resp, body) ==
    FetchResult(resp.v.status, resp.v.statusText, resp.v.ok.v,
                Obj(CollectHeaders(resp.v.headers)), Str(body), Null)

\* variant: an executor that drops the response's status and headers when the
\* body cannot be read (C13 must refute it)
BodyFailOutputNoStatus(resp, e) ==
    FetchResult(Null, Null, FALSE, EmptyObj, Null,
                Str("Failed to read response body: " \o e.message))

BodyFailOutput(resp, e) ==
    FetchResult(resp.v.status, resp.v.statusText, resp.v.ok.v,
                Obj(CollectHeaders(resp.v.headers)), Null,
                Str("Failed to read response body: " \o e.message))

\* variant: an executor that reports no error when fetch rejects (C9 must
\* refute it)
NetFailOutputNoError(w, resp, e) ==
    FetchResult(Coalesce(OptGet(resp, "status"), Null),
                Coalesce(OptGet(resp, "statusText"), Null),
                FALSE, EmptyObj, Null, Null)

\* the catch of the fetch call; `response` is still undefined when fetch
\* itself rejects: response?.status ?? null
NetFailOutput(w, resp, e) ==
    FetchResult(Coalesce(OptGet(resp, "status"), Null),
                Coalesce(OptGet(resp, "statusText"), Null),
                FALSE, EmptyObj, Null,
                Str(IF w = "stdin" THEN "Fetch failed: " \o ErrorText(e)
                                   ELSE ErrorText(e)))

InputErrorOutput(msg) ==
    FetchResult(Null, Null, FALSE, EmptyObj, Null, Str(msg))

UsageMessage == "Usage: deno run --allow-net fetch_worker.ts <url>"

StdinErrorPrefix == "Worker: Failed to process stdin: "

\* `${options.method || "GET"} ${url}`
RequestDesc(u, o) ==
    LET m == OptGet(o, "method")
    IN  (IF Truthy(m) THEN m.v ELSE "GET") \o " " \o u

(***************************************************************************)
(* The values of the model                                                 *)
(***************************************************************************)
Urls == { "http://localhost:9501/get", "" }

\* the options a caller passes: left out, or a RequestInit object (one of
\* whose properties is undefined, which JSON.stringify leaves out); its
\* headers are a plain object or a Headers instance
CallerOptions ==
    { Undef,
      Obj([method |-> Str("POST"), headers |-> Undef, body |-> Str("hi")]),
      Obj([method |-> Str("POST"),
           headers |-> Obj("content-type" :> Str("text/plain")),
           body |-> Str("hi")]),
      Obj([method |-> Str("POST"),
           headers |-> HeadersOf("content-type" :> Str("text/plain")),
           body |-> Str("hi")]) }

OptionsOnWire ==
    { EmptyObj, Obj([method |-> Str("POST"), body |-> Str("hi")]),
      Obj([method |-> Str("POST"),
           headers |-> Obj("content-type" :> Str("text/plain")),
           body |-> Str("hi")]),
      Obj([method |-> Str("POST"), headers |-> EmptyObj, body |-> Str("hi")]) }

InputErrorMessages ==
    { UsageMessage,
      StdinErrorPrefix \o "Unexpected end of JSON input",
      StdinErrorPrefix \o "Invalid or missing 'url' in stdin JSON.",
      StdinErrorPrefix \o "Invalid or missing 'options' object in stdin JSON." }

ExecutorOutputs ==
    {SuccessOutput(ResponseObj(r), r.body) : r \in Responses}
    \cup {BodyFailOutput(ResponseObj(r), e) : r \in Responses, e \in BodyErrors}
    \cup {NetFailOutput(w, Undef, e) : w \in {"stdin", "arg"}, e \in FetchErrors}
    \cup {InputErrorOutput(m) : m \in InputErrorMessages}

\* what a program other than the executor may leave on stdout as JSON: values
\* that are no object, objects that lack fields, and FetchResult objects
\* whose error does not fit the exit code
OtherValues ==
    { Null, Num(0), Num(5), Str(""), Bool(FALSE), Arr(<<>>),
      Obj([status |-> Num(200)]),
      FetchResult(Num(200), Str("OK"), TRUE,
                  Obj("content-type" :> Str("text/plain")), Str("partial"), Null),
      FetchResult(Num(200), Str("OK"), TRUE, EmptyObj, Str("partial"), Str("")),
      FetchResult(Num(502), Str("Bad Gateway"), FALSE, Null, Null,
                  Str("Failed to read response body: reset")) }

\* descriptors on the executor's standard input that the bridge never sends:
\* options that is no plain object, options or url left out, a url that is
\* no string
StdinDescriptors ==
    {Obj([url |-> Str("http://localhost:9501/get"), options |-> o]) :
         o \in {Null, Num(5), Str("x"), Bool(TRUE), Arr(<<>>)}}
    \cup { Obj([url |-> Str("http://localhost:9501/get")]),
           Obj([options |-> EmptyObj]),
           Obj([url |-> Num(5), options |-> EmptyObj]) }

JsonDomain ==
    ExecutorOutputs \cup OtherValues \cup StdinDescriptors
    \cup {Obj([url |-> Str(u), options |-> o]) : u \in Urls, o \in OptionsOnWire}

\* the texts of the values above, with and without the line break that
\* console.log puts after them
JsonTexts ==
    {<<JSONStringify(v), v>> : v \in JsonDomain}
    \cup {<<JSONStringify(v) \o "\n", v>> : v \in JsonDomain}

\* JSON.parse: the value the text serializes (white space after it is
\* allowed), or the SyntaxError it throws
JSONParse(text) ==
    IF \E tv \in JsonTexts : tv[1] = text
    THEN [ok |-> TRUE, value |-> (CHOOSE tv \in JsonTexts : tv[1] = text)[2],
          message |-> ""]
    ELSE [ok |-> FALSE, value |-> Undef,
          message |-> IF text = "" THEN "Unexpected end of JSON input"
                      ELSE "Unexpected token in JSON"]

\* stdout of a program other than the executor that is no JSON text:
\* nothing, a message, two JSON lines
RawStdouts == { "", "Segmentation fault\n", "5\n5\n" }

\* lines of standard error: of the runtime (noise) and of a failing program
\* (the source text quotes --unstable in back quotes, which a TLA+ string
\* cannot hold)
LineUnstable == "Warning The --unstable flag is deprecated, use granular flags"
LineCheck == "Check file:///app/src/mod.worker.ts"
LineDownload == "Download https://jsr.io/@std/io/meta.json"
LineCompile == "error: Compile failed"
LineUncaught == "error: Uncaught (in promise) TypeError: boom"
LineModule == "error: Module not found \"jsr:@std/io/read-all\""

NoiseLines == { LineCheck, LineDownload, "" }
ErrorLines == { LineCompile, LineUncaught }

\* line.includes(pattern), for the lines above; the lines the executor
\* writes hold none of the patterns
Includes(line, pattern) ==
    CASE pattern = "Warning The --unstable flag is deprecated" ->
           line = LineUnstable
      [] pattern = "Check file:" -> line = LineCheck
      [] pattern = "Download" -> line = LineDownload
      [] pattern = "Compile" -> line = LineCompile
      [] OTHER -> FALSE

(***************************************************************************)
(* The bridge (fetchSyncViaDeno)                                           *)
(***************************************************************************)
\* stderrText.split("\n"): the text is its lines, each ended by "\n", so the
\* split ends with the empty string after the last line break
SplitLines(lines) == Append(lines, "")

NoisePatterns(b) ==
    IF b = "stdin"
    THEN { "Warning The --unstable flag is deprecated", "Check file:",
           "Download", "Compile" }
    ELSE { "Warning The --unstable flag is deprecated", "Check file:" }

\* lines.join("\n")
JoinLines(ls) ==
    LET f[i \in 0..Len(ls)] ==
            IF i = 0 THEN ""
            ELSE IF i = 1 THEN ls[1]
            ELSE f[i - 1] \o "\n" \o ls[i]
    IN  f[Len(ls)]

\* trim() of the joined text: no line of the model has white space of its
\* own, so what trim removes is the empty lines at both ends
TrimLines(ls) ==
    LET full == {i \in 1..Len(ls) : ls[i] # ""}
        first == CHOOSE i \in full : \A j \in full : i <= j
        last == CHOOSE i \in full : \A j \in full : j <= i
    IN  IF full = {} THEN <<>> ELSE SubSeq(ls, first, last)

FilteredStderr(b, lines) ==
    LET keep(l) == \A p \in NoisePatterns(b) : ~Includes(l, p)
    IN  JoinLines(TrimLines(SelectSeq(SplitLines(lines), keep)))

\* let parsedResult = null; if (stdoutText) { try { JSON.parse } catch {} }
ParsedResult(stdoutText) ==
    IF stdoutText = "" THEN Null
    ELSE LET p == JSONParse(stdoutText)
         IN  IF p.ok THEN p.value ELSE Null

JsError(msg) == Obj([message |-> Str(msg)])

MaxBuffer == 1024 * 1024

\* node:child_process spawnSync, as the bridge configures it (timeout,
\* maxBuffer): what it returns for each way the child can end
SpawnSyncResult(how, out, outBytes, errLines) ==
    CASE how.kind = "nospawn" ->
           [error |-> JsError("spawnSync /usr/bin/deno ENOENT"),
            status |-> Null, stdout |-> Null, stderr |-> <<>>]
      [] how.kind # "nospawn" /\ outBytes > MaxBuffer ->
           [error |-> JsError("spawnSync /usr/bin/deno ENOBUFS"),
            status |-> Null, stdout |-> Str(out), stderr |-> errLines]
      [] how.kind = "timeout" /\ outBytes <= MaxBuffer ->
           [error |-> JsError("spawnSync /usr/bin/deno ETIMEDOUT"),
            status |-> Null, stdout |-> Str(out), stderr |-> errLines]
      [] how.kind = "signal" /\ outBytes <= MaxBuffer ->
           [error |-> Undef, status |-> Null, stdout |-> Str(out),
            stderr |-> errLines]
      [] OTHER ->
           [error |-> Undef, status |-> Num(how.code), stdout |-> Str(out),
            stderr |-> errLines]

\* variant: a bridge that never looks at the launch error (C3 must refute it)
NoSpawnError(sr) == FALSE

\* if (spawnResult.error)
HasSpawnError(sr) == Truthy(sr.error)

\* variant: a bridge that returns the parsed object at exit code 0 only when
\* it carries no error (C4 must refute it)
ExitZeroParsedNoError(parsedResult) ==
    Truthy(parsedResult) /\ ~Truthy(OptGet(parsedResult, "error"))

\* exit code 0: if (parsedResult)
ExitZeroParsed(parsedResult) == Truthy(parsedResult)

\* variant: a bridge that drops the raw stdout (C5 must refute it)
NonJsonResultNoBody(desc, stdoutText, filteredStderr) ==
    FetchResult(Null, Null, FALSE, EmptyObj, Null,
        Str("Subprocess for " \o desc
            \o " exited successfully (code 0) but produced non-JSON stdout. Stderr: "
            \o (IF filteredStderr # "" THEN filteredStderr ELSE "(empty)")))

\* variant: a bridge that hands the child's stderr back as the body (C20
\* must refute it)
NonJsonResultStderrBody(desc, stdoutText, filteredStderr) ==
    FetchResult(Null, Null, FALSE, EmptyObj, Str(filteredStderr),
        Str("Subprocess for " \o desc
            \o " exited successfully (code 0) but produced non-JSON stdout. Stderr: "
            \o (IF filteredStderr # "" THEN filteredStderr ELSE "(empty)")))

\* exit code 0 and nothing parsed: the result the bridge makes up
NonJsonResult(desc, stdoutText, filteredStderr) ==
    FetchResult(Null, Null, FALSE, EmptyObj, Str(stdoutText),
        Str("Subprocess for " \o desc
            \o " exited successfully (code 0) but produced non-JSON stdout. Stderr: "
            \o (IF filteredStderr # "" THEN filteredStderr ELSE "(empty)")))

\* variant: a bridge that takes every non-null error, the empty string
\* included, as the worker's report (C6 must refute it)
WorkerReportedNonNull(parsedResult) ==
    Truthy(parsedResult) /\ ~Nullish(OptGet(parsedResult, "error"))

\* non-zero exit code: if (parsedResult && parsedResult.error)
WorkerReportedError(parsedResult) ==
    Truthy(parsedResult) /\ Truthy(OptGet(parsedResult, "error"))

\* `Subprocess for ${requestDesc} failed with code ${exitCode}.`
BaseErrorMsg(desc, exitCode) ==
    "Subprocess for " \o desc \o " failed with code " \o ToString(exitCode) \o "."

\* variant: a bridge that appends the raw stdout whenever the filtered stderr
\* is empty (C7 must refute it)
ExtraInfoStdoutWhenNoStderr(filteredStderr, stdoutText, parsedResult) ==
    IF filteredStderr # "" THEN " Stderr: " \o filteredStderr
    ELSE IF stdoutText # "" THEN " Raw stdout: " \o stdoutText
    ELSE ""

\* filteredStderr ? ` Stderr: ...`
\*                : (stdoutText && !parsedResult ? ` Raw stdout: ...` : "")
ExtraInfo(filteredStderr, stdoutText, parsedResult) ==
    IF filteredStderr # "" THEN " Stderr: " \o filteredStderr
    ELSE IF stdoutText # "" /\ ~Truthy(parsedResult)
         THEN " Raw stdout: " \o stdoutText
         ELSE ""

\* the stdin-mode bridge after spawnSync has returned
ReconcileSpawnSync(u, o, sr) ==
    LET requestDesc == RequestDesc(u, o)
        stdoutText == OrElse(sr.stdout, Str("")).v
        stderrLines == sr.stderr
        exitCode == OrElse(sr.status, Num(0)).v
        filteredStderr == FilteredStderr("stdin", stderrLines)
        parsedResult == ParsedResult(stdoutText)
    IN  IF HasSpawnError(sr)
        THEN FetchResult(Null, Null, FALSE, EmptyObj, Null,
                 Str("Failed to execute subprocess: " \o sr.error.v.message.v))
        ELSE IF exitCode = 0
        THEN IF ExitZeroParsed(parsedResult)
             THEN parsedResult
             ELSE NonJsonResult(requestDesc, stdoutText, filteredStderr)
        ELSE IF WorkerReportedError(parsedResult)
        THEN parsedResult
        ELSE FetchResult(Coalesce(OptGet(parsedResult, "status"), Null),
                         Coalesce(OptGet(parsedResult, "statusText"), Null),
                         FALSE,
                         Coalesce(OptGet(parsedResult, "headers"), EmptyObj),
                         Coalesce(OptGet(parsedResult, "body"), Null),
                         Str(BaseErrorMsg(requestDesc, exitCode)
                             \o ExtraInfo(filteredStderr, stdoutText, parsedResult)))

\* Deno.Command(...).outputSync(), which has neither timeout nor buffer
\* bound: the exit code of a child ended by signal n is 128 + n
CommandOutput(how, out, errLines) ==
    [code |-> IF how.kind = "signal" THEN 128 + how.code ELSE how.code,
     stdout |-> out, stderr |-> errLines]

\* variant: an argument-mode bridge that keeps the parsed status after a
\* non-zero exit, as the stdin-mode bridge does (C17 must refute it)
ReconcileCommandKeepsStatus(u, output) ==
    LET stdoutText == output.stdout
        filteredStderr == FilteredStderr("arg", output.stderr)
        parsedResult == ParsedResult(stdoutText)
    IN  IF output.code = 0
        THEN IF ExitZeroParsed(parsedResult)
             THEN parsedResult
             ELSE NonJsonResult(u, stdoutText, filteredStderr)
        ELSE IF WorkerReportedError(parsedResult)
        THEN parsedResult
        ELSE FetchResult(Coalesce(OptGet(parsedResult, "status"), Null),
                         Coalesce(OptGet(parsedResult, "statusText"), Null),
                         FALSE,
                         Coalesce(OptGet(parsedResult, "headers"), EmptyObj),
                         Coalesce(OptGet(parsedResult, "body"), Null),
                         Str(BaseErrorMsg(u, output.code)
                             \o ExtraInfo(filteredStderr, stdoutText, parsedResult)))

\* the argument-mode bridge after outputSync has returned
ReconcileCommand(u, output) ==
    LET stdoutText == output.stdout
        filteredStderr == FilteredStderr("arg", output.stderr)
        parsedResult == ParsedResult(stdoutText)
    IN  IF output.code = 0
        THEN IF ExitZeroParsed(parsedResult)
             THEN parsedResult
             ELSE NonJsonResult(u, stdoutText, filteredStderr)
        ELSE IF WorkerReportedError(parsedResult)
        THEN parsedResult
        ELSE FetchResult(Null, Null, FALSE,
                         Coalesce(OptGet(parsedResult, "headers"), EmptyObj),
                         Coalesce(OptGet(parsedResult, "body"), Null),
                         Str(BaseErrorMsg(u, output.code)
                             \o ExtraInfo(filteredStderr, stdoutText, parsedResult)))

\* the catch block around the whole of the bridge's work
CatchResult(b, e) ==
    FetchResult(Null, Null, FALSE, EmptyObj, Null,
        Str((IF b = "stdin" THEN "Internal error in fetchSyncViaDeno: "
                            ELSE "Failed to spawn Deno subprocess: ")
            \o e.message))

\* variant: a bridge without the catch block (C1 must refute it)
Rethrown(b, e) == [kind |-> "throw", value |-> JsError(e.message)]

\* how a call ends when an exception e is raised inside the try block
Caught(b, e) == [kind |-> "return", value |-> CatchResult(b, e)]

Returned(v) == [kind |-> "return", value |-> v]

\* Deno.execPath() without read permission
ExecPathError ==
    [name |-> "NotCapable",
     message |-> "Requires read access to <exec_path>, run again with the --allow-read flag"]

\* outputSync() when the executable cannot be started
SpawnFailure ==
    [name |-> "NotFound",
     message |-> "Failed to spawn '/usr/bin/deno': No such file or directory (os error 2)"]

(***************************************************************************)
(* The executor's input                                                    *)
(***************************************************************************)
\* variant: a validation that checks the url only (C12 must refute it)
ValidateStdinUrlOnly(text) ==
    LET p == JSONParse(text)
        input == p.value
        u == OptGet(input, "url")
        o == OptGet(input, "options")
        bad(msg) == [ok |-> FALSE, url |-> "", options |-> Undef, message |-> msg]
    IN  IF ~p.ok THEN bad(p.message)
        ELSE IF Nullish(input)
        THEN bad("Cannot read properties of null (reading 'url')")
        ELSE IF ~(IsStr(u) /\ Truthy(u))
        THEN bad("Invalid or missing 'url' in stdin JSON.")
        ELSE [ok |-> TRUE, url |-> u.v, options |-> o, message |-> ""]

\* steps 1-3 and the input validation of the stdin-mode worker
ValidateStdin(text) ==
    LET p == JSONParse(text)
        input == p.value
        u == OptGet(input, "url")
        o == OptGet(input, "options")
        bad(msg) == [ok |-> FALSE, url |-> "", options |-> Undef, message |-> msg]
    IN  IF ~p.ok THEN bad(p.message)
        ELSE IF Nullish(input)
        THEN bad("Cannot read properties of null (reading 'url')")
        ELSE IF ~(IsStr(u) /\ Truthy(u))
        THEN bad("Invalid or missing 'url' in stdin JSON.")
        ELSE IF o.t \notin {"object", "array"}
        THEN bad("Invalid or missing 'options' object in stdin JSON.")
        ELSE [ok |-> TRUE, url |-> u.v, options |-> o, message |-> ""]

\* Deno.args.length === 0 || !Deno.args[0]
ValidateArgs(args) ==
    IF Len(args) = 0 \/ args[1] = ""
    THEN [ok |-> FALSE, url |-> "", options |-> Undef, message |-> UsageMessage]
    ELSE [ok |-> TRUE, url |-> args[1], options |-> Undef, message |-> ""]

\* what the executor may find when it is started by hand: on standard input
\* (stdin-mode worker) nothing, text that is no JSON, JSON that is no
\* object, a descriptor; as arguments (argument-mode worker) none, an empty
\* one, a url
StdinTexts ==
    { "", "not json" }
    \cup {JSONStringify(d) : d \in StdinDescriptors \cup {Null, Num(5)}}
    \cup {JSONStringify(Obj([url |-> Str("http://localhost:9501/get"),
                             options |-> EmptyObj]))}

ArgLists == { <<>>, <<"">>, <<"http://localhost:9501/get">> }

\* the number of bytes console.log(JSON.stringify(out)) puts on the pipe
OutputBytes(out) ==
    IF OptGet(out, "body") = Str(BigBody) THEN 2 * MaxBuffer
    ELSE Len(JSONStringify(out)) + 1

(***************************************************************************)
(* State                                                                   *)
(***************************************************************************)
VARIABLES
    pc,          \* the call: "idle", "called", "waiting" (blocked), "done";
                 \* "direct" when the executor runs without the bridge
    bridge,      \* the bridge in use: "stdin" or "arg"
    worker,      \* the program at ./mod.worker.ts: "stdin" or "arg"
    url,         \* the call's arguments
    options,
    cpc,         \* the child: "none", "start", "fetching", "readingBody",
                 \*            "other", "ended"
    cstdin,      \* what the child finds on its standard input
    cargs,       \* Deno.args of the child
    churl,       \* the executor's url and options
    choptions,
    response,    \* the executor's `response` variable
    stdout,      \* the child's standard output, and its size in bytes
    stdoutBytes,
    stderr,      \* the child's standard error, line by line
    term,        \* how the child ended
    path,        \* the path the child took
    printed,     \* the values the executor has printed as JSON lines
    requests,    \* the requests the executor has handed to fetch
    launches,    \* spawn attempts of this call
    result,      \* how the call ended
    calls        \* several calls side by side, each with its own child
                 \* (CallsSpec)

vars ==
    << pc, bridge, worker, url, options, cpc, cstdin, cargs, churl, choptions,
       response, stdout, stdoutBytes, stderr, term, path, printed, requests,
       launches, result, calls >>

MaxNoise == 2

\* how many calls run side by side
MaxCalls == 2

ExitCodes == { 0, 1, 2 }

\* which worker a bridge finds at ./mod.worker.ts
Pairings == { <<"stdin", "stdin">>, <<"arg", "arg">>, <<"arg", "stdin">> }

Running == { "start", "fetching", "readingBody", "other" }

NoTerm == [kind |-> "none", code |-> 0]
Exit(n) == [kind |-> "exit", code |-> n]

\* a call that has not begun: nothing of it exists before fetchSyncViaDeno is
\* entered, all its state is local to the function
IdleCall ==
    [pc |-> "idle", bridge |-> "none", url |-> "", options |-> Undef,
     how |-> NoTerm, out |-> "", outBytes |-> 0, errs |-> <<>>,
     result |-> [kind |-> "none", value |-> Undef]]

Init ==
    /\ pc = "idle"
    /\ bridge = "none"
    /\ worker = "none"
    /\ url = ""
    /\ options = Undef
    /\ cpc = "none"
    /\ cstdin = ""
    /\ cargs = <<>>
    /\ churl = ""
    /\ choptions = Undef
    /\ response = Undef
    /\ stdout = ""
    /\ stdoutBytes = 0
    /\ stderr = <<>>
    /\ term = NoTerm
    /\ path = "none"
    /\ printed = <<>>
    /\ requests = <<>>
    /\ launches = 0
    /\ result = [kind |-> "none", value |-> Undef]
    /\ calls = [i \in 1..MaxCalls |-> IdleCall]

childVars ==
    << cpc, cstdin, cargs, churl, choptions, response, stdout, stdoutBytes,
       stderr, term, path, printed, requests >>
callVars == << bridge, worker, url, options, calls >>

(***************************************************************************)
(* The bridge's steps                                                      *)
(***************************************************************************)
\* fetchSyncViaDeno(u, o) is called; options defaults to {}
Call(b, w, u, o) ==
    /\ pc = "idle"
    /\ pc' = "called"
    /\ bridge' = b
    /\ worker' = w
    /\ url' = u
    /\ options' = IF o = Undef THEN EmptyObj ELSE o
    /\ UNCHANGED << childVars, launches, result, calls >>

\* an exception inside the try block before the child is launched
LaunchThrows ==
    /\ pc = "called"
    /\ result' = Caught(bridge, ExecPathError)
    /\ pc' = "done"
    /\ UNCHANGED << callVars, childVars, launches >>

\* the spawn facility cannot start the child
LaunchSpawnFails ==
    /\ pc = "called"
    /\ term' = [kind |-> "nospawn", code |-> 0]
    /\ launches' = launches + 1
    /\ pc' = "waiting"
    /\ UNCHANGED << callVars, cpc, cstdin, cargs, churl, choptions, response,
                    stdout, stdoutBytes, stderr, path, printed, requests,
                    result >>

\* the child is started: the stdin-mode bridge pipes the JSON of
\* {url, options}, the argument-mode bridge passes the url as argument
LaunchChild ==
    /\ pc = "called"
    /\ cstdin' = IF bridge = "stdin"
                 THEN JSONStringify(Obj([url |-> Str(url), options |-> options]))
                 ELSE ""
    /\ cargs' = IF bridge = "stdin" THEN <<>> ELSE <<url>>
    /\ cpc' = "start"
    /\ launches' = launches + 1
    /\ pc' = "waiting"
    /\ UNCHANGED << callVars, churl, choptions, response, stdout, stdoutBytes,
                    stderr, term, path, printed, requests, result >>

\* the blocking call returns and the bridge reconciles what it got
BridgeResult ==
    IF bridge = "stdin"
    THEN Returned(ReconcileSpawnSync(url, options,
                      SpawnSyncResult(term, stdout, stdoutBytes, stderr)))
    ELSE IF term.kind = "nospawn"
    THEN Caught(bridge, SpawnFailure)
    ELSE Returned(ReconcileCommand(url, CommandOutput(term, stdout, stderr)))

\* variant: a launch that does not wait for the child and reconciles
\* whatever the child has written so far (C15 must refute it)
BridgeReturnEarly ==
    /\ pc = "waiting"
    /\ result' = BridgeResult
    /\ pc' = "done"
    /\ UNCHANGED << callVars, childVars, launches >>

\* variant: a bridge that launches the child once more when the first
\* attempt ended in an error (C18 must refute it)
BridgeReturnRetries ==
    /\ pc = "waiting"
    /\ cpc = "ended" \/ term.kind = "nospawn"
    /\ IF ~Nullish(OptGet(BridgeResult.value, "error")) /\ launches < 2
       THEN pc' = "called" /\ UNCHANGED result
       ELSE result' = BridgeResult /\ pc' = "done"
    /\ UNCHANGED << callVars, childVars, launches >>

BridgeReturn ==
    /\ pc = "waiting"
    /\ cpc = "ended" \/ term.kind = "nospawn"
    /\ result' = BridgeResult
    /\ pc' = "done"
    /\ UNCHANGED << callVars, childVars, launches >>

\* the 30 s timeout of spawnSync ends a child that is still running
Timeout ==
    /\ pc = "waiting"
    /\ bridge = "stdin"
    /\ cpc \in Running
    /\ term' = [kind |-> "timeout", code |-> 0]
    /\ cpc' = "ended"
    /\ UNCHANGED << pc, callVars, cstdin, cargs, churl, choptions, response,
                    stdout, stdoutBytes, stderr, path, printed, requests,
                    launches, result >>

(***************************************************************************)
(* The child's steps                                                       *)
(***************************************************************************)
\* the executor is started by hand, as a process of its own, with some
\* standard input and some arguments
RunExecutor(w, text, args) ==
    /\ pc = "idle"
    /\ pc' = "direct"
    /\ worker' = w
    /\ cstdin' = text
    /\ cargs' = args
    /\ cpc' = "start"
    /\ UNCHANGED << bridge, url, options, churl, choptions, response, stdout,
                    stdoutBytes, stderr, term, path, printed, requests,
                    launches, result, calls >>

\* variant: an executor that exits with code 0 on its failure paths (C10
\* must refute it)
EmitAndExitZero(line, out, code, p) ==
    /\ stderr' = Append(stderr, line)
    /\ stdout' = stdout \o JSONStringify(out) \o "\n"
    /\ stdoutBytes' = stdoutBytes + OutputBytes(out)
    /\ printed' = Append(printed, out)
    /\ term' = Exit(0)
    /\ cpc' = "ended"
    /\ path' = p

\* variant: an executor that also writes its log line to standard output
\* (C11 must refute it)
EmitOnStdoutAndExit(line, out, code, p) ==
    /\ stderr' = Append(stderr, line)
    /\ stdout' = stdout \o line \o "\n" \o JSONStringify(out) \o "\n"
    /\ stdoutBytes' = stdoutBytes + Len(line) + 1 + OutputBytes(out)
    /\ printed' = Append(printed, out)
    /\ term' = Exit(code)
    /\ cpc' = "ended"
    /\ path' = p

\* console.error(line); console.log(JSON.stringify(out)); Deno.exit(code)
EmitAndExit(line, out, code, p) ==
    /\ stderr' = Append(stderr, line)
    /\ stdout' = stdout \o JSONStringify(out) \o "\n"
    /\ stdoutBytes' = stdoutBytes + OutputBytes(out)
    /\ printed' = Append(printed, out)
    /\ term' = Exit(code)
    /\ cpc' = "ended"
    /\ path' = p

\* the runtime writes a notice to standard error before the program runs
RuntimeNoise(l) ==
    /\ cpc = "start"
    /\ Len(stderr) < MaxNoise
    /\ stderr' = Append(stderr, l)
    /\ UNCHANGED << pc, callVars, cpc, cstdin, cargs, churl, choptions,
                    response, stdout, stdoutBytes, term, path, printed,
                    requests, launches, result >>

\* the runtime cannot load the program and exits with code 1
RuntimeFails ==
    /\ cpc = "start"
    /\ stderr' = Append(stderr, LineModule)
    /\ term' = Exit(1)
    /\ cpc' = "ended"
    /\ path' = "runtime"
    /\ UNCHANGED << pc, callVars, cstdin, cargs, churl, choptions, response,
                    stdout, stdoutBytes, printed, requests, launches, result >>

\* main() up to the fetch call: the input is read and validated
ExecInput ==
    IF worker = "stdin" THEN ValidateStdin(cstdin) ELSE ValidateArgs(cargs)

ExecInputError ==
    IF worker = "stdin" THEN StdinErrorPrefix \o ExecInput.message
    ELSE ExecInput.message

ExecStartRejects ==
    /\ cpc = "start"
    /\ ~ExecInput.ok
    /\ EmitAndExit(ExecInputError, InputErrorOutput(ExecInputError), 1,
                   IF worker = "stdin" THEN "validation" ELSE "usage")
    /\ UNCHANGED << pc, callVars, cstdin, cargs, churl, choptions, response,
                    requests, launches, result >>

ExecStartFetches ==
    /\ cpc = "start"
    /\ ExecInput.ok
    /\ churl' = ExecInput.url
    /\ choptions' = ExecInput.options
    /\ requests' = Append(requests,
                          [url |-> ExecInput.url, options |-> ExecInput.options])
    /\ cpc' = "fetching"
    /\ UNCHANGED << pc, callVars, cstdin, cargs, response, stdout,
                    stdoutBytes, stderr, term, path, printed, launches, result >>

\* what the executor calls the request in its log lines
ExecDesc ==
    IF worker = "stdin" THEN RequestDesc(churl, choptions) ELSE churl

\* fetch resolves: the headers are collected and response.text() is awaited
ExecFetchResolves(r) ==
    /\ cpc = "fetching"
    /\ response' = ResponseObj(r)
    /\ cpc' = "readingBody"
    /\ UNCHANGED << pc, callVars, cstdin, cargs, churl, choptions, stdout,
                    stdoutBytes, stderr, term, path, printed, requests,
                    launches, result >>

\* fetch rejects
ExecFetchRejects(e) ==
    /\ cpc = "fetching"
    /\ EmitAndExit("Worker: Fetch failed for " \o ExecDesc \o ": " \o ErrorText(e),
                   NetFailOutput(worker, response, e), 1, "netfail")
    /\ UNCHANGED << pc, callVars, cstdin, cargs, churl, choptions, response,
                    requests, launches, result >>

\* response.text() resolves: the success output, exit code 0
ExecBodyResolves ==
    /\ cpc = "readingBody"
    /\ stdout' = stdout \o JSONStringify(SuccessOutput(response, response.v.body)) \o "\n"
    /\ stdoutBytes' = stdoutBytes + OutputBytes(SuccessOutput(response, response.v.body))
    /\ printed' = Append(printed, SuccessOutput(response, response.v.body))
    /\ term' = Exit(0)
    /\ cpc' = "ended"
    /\ path' = "success"
    /\ UNCHANGED << pc, callVars, cstdin, cargs, churl, choptions, response,
                    stderr, requests, launches, result >>

\* response.text() rejects
ExecBodyRejects(e) ==
    /\ cpc = "readingBody"
    /\ EmitAndExit("Worker: Error reading response body for " \o ExecDesc
                       \o ": " \o ErrorText(e),
                   BodyFailOutput(response, e), 1, "bodyfail")
    /\ UNCHANGED << pc, callVars, cstdin, cargs, churl, choptions, response,
                    requests, launches, result >>

\* the program at ./mod.worker.ts is not the executor: it leaves some text
\* on stdout (raw text, or the JSON line of some value), then exits with
\* some code, with or without an error line
OtherWrites(text) ==
    /\ cpc = "start"
    /\ stdout' = text
    /\ stdoutBytes' = Len(text)
    /\ cpc' = "other"
    /\ path' = "other"
    /\ UNCHANGED << pc, callVars, cstdin, cargs, churl, choptions, response,
                    stderr, term, printed, requests, launches, result >>

OtherPrints(v) ==
    /\ cpc = "start"
    /\ stdout' = JSONStringify(v) \o "\n"
    /\ stdoutBytes' = OutputBytes(v)
    /\ cpc' = "other"
    /\ path' = "other"
    /\ UNCHANGED << pc, callVars, cstdin, cargs, churl, choptions, response,
                    stderr, term, printed, requests, launches, result >>

OtherExits(code, errs) ==
    /\ cpc = "other"
    /\ stderr' = stderr \o errs
    /\ term' = Exit(code)
    /\ cpc' = "ended"
    /\ UNCHANGED << pc, callVars, cstdin, cargs, churl, choptions, response,
                    stdout, stdoutBytes, path, printed, requests, launches,
                    result >>

\* the child is ended from outside by SIGTERM (signal 15)
Killed ==
    /\ cpc \in Running
    /\ term' = [kind |-> "signal", code |-> 15]
    /\ cpc' = "ended"
    /\ UNCHANGED << pc, callVars, cstdin, cargs, churl, choptions, response,
                    stdout, stdoutBytes, stderr, path, printed, requests,
                    launches, result >>

Next ==
    \/ \E pr \in Pairings, u \in Urls, o \in CallerOptions :
           Call(pr[1], pr[2], u, o)
    \/ \E text \in StdinTexts : RunExecutor("stdin", text, <<>>)
    \/ \E args \in ArgLists : RunExecutor("arg", "", args)
    \/ LaunchThrows
    \/ LaunchSpawnFails
    \/ LaunchChild
    \/ BridgeReturn
    \/ Timeout
    \/ \E l \in NoiseLines : RuntimeNoise(l)
    \/ RuntimeFails
    \/ ExecStartRejects
    \/ ExecStartFetches
    \/ \E r \in Responses : ExecFetchResolves(r)
    \/ \E e \in FetchErrors : ExecFetchRejects(e)
    \/ ExecBodyResolves
    \/ \E e \in BodyErrors : ExecBodyRejects(e)
    \/ \E text \in RawStdouts : OtherWrites(text)
    \/ \E v \in OtherValues : OtherPrints(v)
    \/ \E code \in ExitCodes, errs \in {<<>>} \cup {<<l>> : l \in ErrorLines} :
           OtherExits(code, errs)
    \/ Killed

Spec == Init /\ [][Next]_vars

(***************************************************************************)
(* Several calls side by side.  fetchSyncViaDeno keeps no state outside    *)
(* its own invocation: the modules declare no variable at top level, and   *)
(* each call spawns a child of its own.  Each slot of `calls` is one call  *)
(* (made from a thread of its own, or one after the other); how its child  *)
(* ended is drawn from ChildOutcomes.                                      *)
(***************************************************************************)
\* /status/404 of the test server
NotFound == CHOOSE r \in Responses : r.status = 404

\* how a child can have ended and what it left: the launch failed; the
\* timeout ended it; the executor printed the response (with or without a
\* notice of the runtime on stderr); fetch failed; the runtime failed
ChildOutcomes ==
    { [how |-> [kind |-> "nospawn", code |-> 0], out |-> "", errs |-> <<>>],
      [how |-> [kind |-> "timeout", code |-> 0], out |-> "", errs |-> <<>>],
      [how |-> Exit(0),
       out |-> JSONStringify(SuccessOutput(ResponseObj(NotFound), NotFound.body))
                   \o "\n",
       errs |-> <<>>],
      [how |-> Exit(0),
       out |-> JSONStringify(SuccessOutput(ResponseObj(NotFound), NotFound.body))
                   \o "\n",
       errs |-> <<LineDownload>>],
      [how |-> Exit(1),
       out |-> "",
       errs |-> <<LineModule>>] }

\* what a call returns, computed from what the call itself holds
CallResult(c) ==
    IF c.bridge = "stdin"
    THEN Returned(ReconcileSpawnSync(c.url, c.options,
                      SpawnSyncResult(c.how, c.out, c.outBytes, c.errs)))
    ELSE IF c.how.kind = "nospawn"
    THEN Caught("arg", SpawnFailure)
    ELSE Returned(ReconcileCommand(c.url, CommandOutput(c.how, c.out, c.errs)))

singleVars ==
    << pc, bridge, worker, url, options, childVars, launches, result >>

\* call i enters fetchSyncViaDeno and blocks in the launch
CallStarts(i, b, u, o) ==
    /\ calls[i].pc = "idle"
    /\ calls' = [calls EXCEPT ![i] =
                     [@ EXCEPT !.pc = "waiting", !.bridge = b, !.url = u,
                               !.options = IF o = Undef THEN EmptyObj ELSE o]]
    /\ UNCHANGED singleVars

\* the child of call i ends (only the stdin-mode bridge sets a timeout)
ChildEnds(i, oc) ==
    /\ calls[i].pc = "waiting"
    /\ calls[i].how = NoTerm
    /\ oc.how.kind = "timeout" => calls[i].bridge = "stdin"
    /\ calls' = [calls EXCEPT ![i] =
                     [@ EXCEPT !.how = oc.how, !.out = oc.out,
                               !.outBytes = Len(oc.out), !.errs = oc.errs]]
    /\ UNCHANGED singleVars

\* variant: a bridge that keeps the captured output in a buffer shared by
\* all calls, so that a call reads what the child of another call wrote last
\* (C19 must refute it)
CallReturnsShared(i) ==
    /\ calls[i].pc = "waiting"
    /\ calls[i].how # NoTerm
    /\ LET ended == {j \in 1..MaxCalls : calls[j].how # NoTerm}
           j == CHOOSE k \in ended : \A m \in ended : k <= m
           shared == [calls[i] EXCEPT !.out = calls[j].out,
                                      !.outBytes = calls[j].outBytes]
       IN  calls' = [calls EXCEPT ![i] =
                         [@ EXCEPT !.pc = "done", !.result = CallResult(shared)]]
    /\ UNCHANGED singleVars

\* the launch of call i returns and the call reconciles what its child left
CallReturns(i) ==
    /\ calls[i].pc = "waiting"
    /\ calls[i].how # NoTerm
    /\ calls' = [calls EXCEPT ![i] =
                     [@ EXCEPT !.pc = "done", !.result = CallResult(calls[i])]]
    /\ UNCHANGED singleVars

CallsNext ==
    \/ \E i \in 1..MaxCalls, b \in {"stdin", "arg"}, o \in {Undef} :
           CallStarts(i, b, "http://localhost:9501/status/404", o)
    \/ \E i \in 1..MaxCalls, oc \in ChildOutcomes : ChildEnds(i, oc)
    \/ \E i \in 1..MaxCalls : CallReturns(i)

CallsSpec == Init /\ [][CallsNext]_vars

(***************************************************************************)
(* Properties                                                              *)
(***************************************************************************)
\* the call has returned to its caller
Done == pc = "done"

\* the child was started and the launch reported no error: node's spawnSync
\* reports one for a timeout and for output beyond maxBuffer
SpawnSucceeded ==
    /\ term.kind \in {"exit", "signal"}
    /\ ~(bridge = "stdin" /\ stdoutBytes > MaxBuffer)

ExitedNonZero == term.kind = "exit" /\ term.code # 0

\* JSON.parse(stdoutText) of what the child left on stdout
StdoutJson == JSONParse(stdout)

\* the request as the bridge's messages name it
CallDesc == IF bridge = "stdin" THEN RequestDesc(url, options) ELSE url

\* filteredStderr of the call
Filtered == FilteredStderr(bridge, stderr)

\* the six properties of a FetchResult
FetchResultKeys ==
    { "status", "statusText", "ok", "headers", "body", "error" }

IsFetchResult(v) == IsObj(v) /\ DOMAIN v.v = FetchResultKeys

\* ok is true exactly when status is a number of 200..299
OkMatchesStatus(v) ==
    v.v.ok = Bool(IsNum(v.v.status) /\ v.v.status.v >= 200 /\ v.v.status.v < 300)

\* the child could not do its work, or the launch failed
CallFailed ==
    \/ term.kind \in {"none", "nospawn", "timeout"}
    \/ ExitedNonZero
    \/ bridge = "stdin" /\ stdoutBytes > MaxBuffer
    \/ term = Exit(0) /\ ~StdoutJson.ok

\* C1: a call never ends by throwing: whatever the url, the options and the
\* child's outcome, and when a step of the bridge inside its try block
\* raises, the call returns a value, and when the launch or the child
\* failed that value is an object whose error is a non-empty string
C1_NeverRaises ==
    Done =>
        /\ result.kind = "return"
        /\ CallFailed =>
               /\ IsFetchResult(result.value)
               /\ IsStr(result.value.v.error)
               /\ result.value.v.error.v # ""

\* a step of the bridge raised before the child was launched, and the call
\* returned the catch block's result
C1_Witness ==
    /\ Done
    /\ term.kind = "none"
    /\ launches = 0
    /\ result.kind = "return"
    /\ result.value.v.error.v # ""

\* C2 (as stated): in every FetchResult the call returns and in every
\* FetchResult the executor prints, ok is true if and only if status is a
\* number in [200, 300)
C2_OkIffStatusInRange ==
    /\ \A i \in 1..Len(printed) : OkMatchesStatus(printed[i])
    /\ (Done /\ result.kind = "return" /\ IsFetchResult(result.value))
           => OkMatchesStatus(result.value)

\* the launch failures the spawn facility reports, as the bridge words them
SpawnFailureMessages ==
    { "Failed to execute subprocess: spawnSync /usr/bin/deno " \o c :
          c \in {"ENOENT", "ETIMEDOUT", "ENOBUFS"} }
    \cup { "Failed to spawn Deno subprocess: " \o SpawnFailure.message }

SpawnFailed ==
    \/ term.kind \in {"nospawn", "timeout"}
    \/ bridge = "stdin" /\ stdoutBytes > MaxBuffer

\* C3: rule (a): when the launch failed, the call returns status null,
\* statusText null, ok false, headers {}, body null and an error naming the
\* cause, whatever exit code, stdout and stderr were captured
C3_SpawnFailureFirst ==
    Done /\ SpawnFailed =>
        \E m \in SpawnFailureMessages :
            result = Returned(FetchResult(Null, Null, FALSE, EmptyObj, Null, Str(m)))

\* the child was ended by the timeout after it had left a JSON line on
\* stdout that parses, and the call still returned the launch failure
C3_Witness ==
    /\ Done
    /\ term.kind = "timeout"
    /\ StdoutJson.ok
    /\ Truthy(StdoutJson.value)
    /\ result.value.v.error =
           Str("Failed to execute subprocess: spawnSync /usr/bin/deno ETIMEDOUT")

\* C4: rule (b): when the launch succeeded, the child exited with code 0 and
\* stdout parsed to an object (or to any other value that is truthy), the
\* call returns exactly the parsed value, also when its error is non-null
C4_ExitZeroParsedVerbatim ==
    (/\ Done
     /\ SpawnSucceeded
     /\ term = Exit(0)
     /\ StdoutJson.ok
     /\ Truthy(StdoutJson.value))
        => result = Returned(StdoutJson.value)

\* exit code 0 with a parsed object whose error is a non-empty string,
\* returned as it is
C4_Witness ==
    /\ Done
    /\ SpawnSucceeded
    /\ term = Exit(0)
    /\ StdoutJson.ok
    /\ IsFetchResult(StdoutJson.value)
    /\ Truthy(StdoutJson.value.v.error)
    /\ result.value = StdoutJson.value

\* C5: rule (c): when the launch succeeded, the child exited with code 0 and
\* stdout did not parse (empty stdout included), the call returns status
\* null, statusText null, ok false, headers {}, body = the raw stdout, and an
\* error that says so and ends with the filtered stderr, or with (empty)
C5_ExitZeroUnparsed ==
    (/\ Done
     /\ SpawnSucceeded
     /\ term = Exit(0)
     /\ ~StdoutJson.ok)
        => result = Returned(FetchResult(Null, Null, FALSE, EmptyObj, Str(stdout),
               Str("Subprocess for " \o CallDesc
                   \o " exited successfully (code 0) but produced non-JSON stdout. Stderr: "
                   \o (IF Filtered # "" THEN Filtered ELSE "(empty)"))))

\* exit code 0, text on stdout that is no JSON, and stderr lines that
\* survive the filter
C5_Witness ==
    /\ Done
    /\ SpawnSucceeded
    /\ term = Exit(0)
    /\ stdout # ""
    /\ ~StdoutJson.ok
    /\ Filtered # ""
    /\ result.value.v.body = Str(stdout)

\* C6 (amended): rule (d): when the launch succeeded, the exit code is
\* non-zero and stdout parsed to an object, the call returns the parsed
\* object as it is when its error is a non-empty string; when its error is
\* the empty string the call returns an error of the bridge's own making
C6_NonZeroReportedError ==
    (/\ Done
     /\ SpawnSucceeded
     /\ ExitedNonZero
     /\ StdoutJson.ok
     /\ IsObj(StdoutJson.value))
        => /\ Truthy(OptGet(StdoutJson.value, "error"))
               => result = Returned(StdoutJson.value)
           /\ OptGet(StdoutJson.value, "error") = Str("")
               => /\ result.value # StdoutJson.value
                  /\ IsStr(result.value.v.error)
                  /\ result.value.v.error.v # ""

\* C6 (as stated): the parsed object is returned as it is for every non-null
\* value of its error, the empty string included
C6_AsStated ==
    (/\ Done
     /\ SpawnSucceeded
     /\ ExitedNonZero
     /\ StdoutJson.ok
     /\ IsObj(StdoutJson.value)
     /\ ~Nullish(OptGet(StdoutJson.value, "error")))
        => result = Returned(StdoutJson.value)

\* exit code 1 after the executor's body-read failure: the printed object,
\* error and status included, is what the call returns
C6_Witness ==
    /\ Done
    /\ SpawnSucceeded
    /\ term = Exit(1)
    /\ path = "bodyfail"
    /\ Truthy(OptGet(StdoutJson.value, "error"))
    /\ result.value = StdoutJson.value

\* the premise of rule (e)
RuleECase ==
    /\ Done
    /\ SpawnSucceeded
    /\ ExitedNonZero
    /\ ~(Truthy(ParsedResult(stdout))
         /\ Truthy(OptGet(ParsedResult(stdout), "error")))

\* `<base message naming the exit code>`
ExitCodeMessage ==
    "Subprocess for " \o CallDesc \o " failed with code "
        \o ToString(term.code) \o "."

\* C7 (amended): rule (e): the error names the exit code and appends the
\* filtered stderr when there is any; the raw stdout is appended only when
\* the filtered stderr is empty, stdout is not empty and stdout did not
\* parse; ok is false; headers and body are the parsed object's, {} and null
\* when it has none; status and statusText are the parsed object's in the
\* stdin-mode bridge and null in the argument-mode bridge
C7_NonZeroSynthesized ==
    RuleECase =>
        /\ result.kind = "return"
        /\ IsFetchResult(result.value)
        /\ result.value.v.error =
               Str(ExitCodeMessage \o
                   (IF Filtered # "" THEN " Stderr: " \o Filtered
                    ELSE IF stdout # "" /\ ~Truthy(ParsedResult(stdout))
                         THEN " Raw stdout: " \o stdout
                         ELSE ""))
        /\ result.value.v.ok = Bool(FALSE)
        /\ result.value.v.headers =
               Coalesce(OptGet(ParsedResult(stdout), "headers"), EmptyObj)
        /\ result.value.v.body =
               Coalesce(OptGet(ParsedResult(stdout), "body"), Null)
        /\ result.value.v.status =
               (IF bridge = "stdin"
                THEN Coalesce(OptGet(ParsedResult(stdout), "status"), Null)
                ELSE Null)
        /\ result.value.v.statusText =
               (IF bridge = "stdin"
                THEN Coalesce(OptGet(ParsedResult(stdout), "statusText"), Null)
                ELSE Null)

\* C7 (as stated): the error appends the filtered stderr or, when that is
\* empty, the raw stdout; status, statusText, headers and body are the parsed
\* object's when there is one
C7_AsStated ==
    RuleECase =>
        /\ result.value.v.error =
               Str(ExitCodeMessage \o
                   (IF Filtered # "" THEN " Stderr: " \o Filtered
                    ELSE IF stdout # "" THEN " Raw stdout: " \o stdout
                         ELSE ""))
        /\ result.value.v.headers =
               Coalesce(OptGet(ParsedResult(stdout), "headers"), EmptyObj)
        /\ result.value.v.body =
               Coalesce(OptGet(ParsedResult(stdout), "body"), Null)
        /\ result.value.v.status =
               Coalesce(OptGet(ParsedResult(stdout), "status"), Null)
        /\ result.value.v.statusText =
               Coalesce(OptGet(ParsedResult(stdout), "statusText"), Null)

\* exit code 2, a parsed object without an error on stdout and nothing left
\* of stderr: the error names the code and appends nothing
C7_Witness ==
    /\ RuleECase
    /\ term.code = 2
    /\ IsObj(ParsedResult(stdout))
    /\ Filtered = ""
    /\ result.value.v.error = Str(ExitCodeMessage)

\* C8 (amended): when the server answered and the body was read, the
\* executor exits with code 0 and, provided the printed line fits the output
\* buffer of the stdin-mode bridge, the call returns error null with the
\* server's status, statusText and body, ok true for 200..299 and false for
\* 400..599
C8_HttpStatusIsNoFailure ==
    (/\ Done
     /\ path = "success"
     /\ ~(bridge = "stdin" /\ stdoutBytes > MaxBuffer))
        => /\ term = Exit(0)
           /\ result.kind = "return"
           /\ IsFetchResult(result.value)
           /\ result.value.v.error = Null
           /\ result.value.v.status = response.v.status
           /\ result.value.v.statusText = response.v.statusText
           /\ result.value.v.body = Str(response.v.body)
           /\ response.v.status.v \in 200..299 => result.value.v.ok = Bool(TRUE)
           /\ response.v.status.v \in 400..599 => result.value.v.ok = Bool(FALSE)

\* C8 (as stated): the same for every response whose body was read
C8_AsStated ==
    (Done /\ path = "success")
        => /\ term = Exit(0)
           /\ IsFetchResult(result.value)
           /\ result.value.v.error = Null
           /\ result.value.v.status = response.v.status
           /\ result.value.v.statusText = response.v.statusText
           /\ result.value.v.body = Str(response.v.body)
           /\ response.v.status.v \in 200..299 => result.value.v.ok = Bool(TRUE)
           /\ response.v.status.v \in 400..599 => result.value.v.ok = Bool(FALSE)

\* a 404 answer, read and returned with error null and ok false
C8_Witness ==
    /\ Done
    /\ path = "success"
    /\ response.v.status = Num(404)
    /\ result.value.v.status = Num(404)
    /\ result.value.v.ok = Bool(FALSE)
    /\ result.value.v.error = Null

\* C9: when fetch itself rejects, the executor exits with code 1 and the
\* call returns what the executor printed: status null, statusText null, ok
\* false, headers {}, body null and the executor's error text
C9_NetworkFailure ==
    (Done /\ path = "netfail")
        => /\ term = Exit(1)
           /\ result = Returned(printed[Len(printed)])
           /\ \E e \in FetchErrors :
                  result.value =
                      FetchResult(Null, Null, FALSE, EmptyObj, Null,
                          Str(IF worker = "stdin"
                              THEN "Fetch failed: " \o ErrorText(e)
                              ELSE ErrorText(e)))

\* a DNS failure in the stdin-mode pair, returned with the executor's words
C9_Witness ==
    /\ Done
    /\ path = "netfail"
    /\ bridge = "stdin"
    /\ result.value.v.error =
           Str("Fetch failed: TypeError: error sending request: dns error: failed to lookup address information")

\* the paths of the executor that end with its own exit call
ExecutorPaths == { "success", "usage", "validation", "netfail", "bodyfail" }

\* C10: on each of its paths the executor prints one FetchResult and exits;
\* the exit code is 0 exactly when the printed error is null, which is
\* exactly the path on which the body was read; it is 1 exactly on the usage,
\* validation, body-read and network failure paths; it is no other code
C10_ExitCodeContract ==
    path \in ExecutorPaths =>
        /\ cpc = "ended"
        /\ term.kind = "exit"
        /\ term.code \in {0, 1}
        /\ Len(printed) = 1
        /\ IsFetchResult(printed[1])
        /\ term.code = 0 <=> printed[1].v.error = Null
        /\ term.code = 0 <=> path = "success"
        /\ term.code = 0 => IsStr(printed[1].v.body)
        /\ term.code = 1 <=>
               path \in {"usage", "validation", "netfail", "bodyfail"}

\* the body could not be read: exit code 1 and a printed error
C10_Witness ==
    /\ path = "bodyfail"
    /\ term = Exit(1)
    /\ Len(printed) = 1
    /\ IsStr(printed[1].v.error)

\* C11: on each of its paths the executor writes exactly one JSON line to
\* standard output, the line of the one FetchResult it prints, and the
\* process has ended with that write; nothing else is on standard output,
\* the log lines are on standard error; before the write standard output is
\* empty and nothing is printed twice
C11_OneJsonLine ==
    /\ Len(printed) <= 1
    /\ path \in ExecutorPaths =>
           /\ Len(printed) = 1
           /\ stdout = JSONStringify(printed[1]) \o "\n"
           /\ cpc = "ended"
           /\ term.kind = "exit"
           /\ path # "success" => Len(stderr) >= 1
    /\ (path = "none" /\ cpc # "none") => stdout = "" /\ printed = <<>>

\* the validation failure of the stdin-mode worker: one JSON line on
\* stdout, the log line on stderr, and the process ended
C11_Witness ==
    /\ path = "validation"
    /\ cpc = "ended"
    /\ Len(printed) = 1
    /\ stdout = JSONStringify(printed[1]) \o "\n"
    /\ stderr # <<>>


\* what JSON.parse makes of the executor's standard input
StdinInput == JSONParse(cstdin)

\* the text is no JSON (empty input included)
StdinUnparseable == ~StdinInput.ok

\* typeof url !== "string" || !url
UrlInvalid ==
    LET u == OptGet(StdinInput.value, "url")
    IN  ~(IsStr(u) /\ u.v # "")

\* typeof options !== "object" || options === null : options is left out,
\* null, or a number, string or boolean; an array has typeof "object"
OptionsInvalid ==
    LET o == OptGet(StdinInput.value, "options")
    IN  Nullish(o) \/ o.t \in {"number", "string", "boolean"}

\* Deno.args.length === 0 || !Deno.args[0]
ArgsInvalid == Len(cargs) = 0 \/ cargs[1] = ""

\* the executor has written the result of an input error and exited with 1
InputErrorReported ==
    /\ path \in {"validation", "usage"}
    /\ cpc = "ended"
    /\ term = Exit(1)
    /\ Len(printed) = 1
    /\ IsFetchResult(printed[1])
    /\ OptGet(printed[1], "status") = Null
    /\ OptGet(printed[1], "ok") = Bool(FALSE)
    /\ OptGet(printed[1], "headers") = EmptyObj
    /\ OptGet(printed[1], "body") = Null
    /\ IsStr(OptGet(printed[1], "error"))
    /\ requests = <<>>

\* C12: the stdin-mode executor whose standard input is empty or no JSON, or
\* whose descriptor has no non-empty string url, or whose options is left
\* out, null or a primitive, and the argument-mode executor whose url
\* argument is missing or empty, never hands a request to fetch, and the path
\* it takes prints a FetchResult with status null, ok false, headers {}, body
\* null and a string error and exits with code 1; on any other input the
\* executor does not take an input-error path (an array as options passes)
C12_InputValidation ==
    LET bad == \/ worker = "stdin"
                  /\ (StdinUnparseable \/ UrlInvalid \/ OptionsInvalid)
               \/ worker = "arg" /\ ArgsInvalid
    IN  /\ (cpc # "none" /\ bad) =>
               /\ requests = <<>>
               /\ cpc \notin {"fetching", "readingBody"}
               /\ path \in ExecutorPaths => InputErrorReported
        /\ (cpc # "none" /\ ~bad) => path \notin {"validation", "usage"}

\* C12 as the specification words it: every options that is present and is
\* no object is rejected (refuted by an array)
C12_AsStated ==
    LET o == OptGet(StdinInput.value, "options")
        bad == \/ worker = "stdin"
                  /\ \/ StdinUnparseable
                     \/ UrlInvalid
                     \/ (o # Undef /\ ~IsObj(o))
               \/ worker = "arg" /\ ArgsInvalid
    IN  (cpc # "none" /\ bad) =>
            /\ requests = <<>>
            /\ path \in ExecutorPaths => InputErrorReported

C12_Witness ==
    /\ pc = "direct"
    /\ worker = "stdin"
    /\ OptGet(StdinInput.value, "options") = Num(5)
    /\ InputErrorReported
    /\ stdout = JSONStringify(InputErrorOutput(
           StdinErrorPrefix \o "Invalid or missing 'options' object in stdin JSON."))
           \o "\n"


\* C13: when response.text() rejects, the executor prints the response's
\* status, statusText, ok and headers with body null and a non-empty error
\* text and exits with code 1, and the call returns exactly that object
C13_BodyReadFailure ==
    path = "bodyfail" =>
        /\ cpc = "ended"
        /\ term = Exit(1)
        /\ Len(printed) = 1
        /\ IsFetchResult(printed[1])
        /\ OptGet(printed[1], "status") = response.v.status
        /\ OptGet(printed[1], "statusText") = response.v.statusText
        /\ OptGet(printed[1], "ok") = response.v.ok
        /\ OptGet(printed[1], "headers") = Obj(CollectHeaders(response.v.headers))
        /\ OptGet(printed[1], "body") = Null
        /\ IsStr(OptGet(printed[1], "error"))
        /\ Truthy(OptGet(printed[1], "error"))
        /\ Done => result = Returned(printed[1])

\* a 200 response whose body breaks off, returned by the stdin-mode bridge
\* with status and headers kept
C13_Witness ==
    /\ Done
    /\ bridge = "stdin"
    /\ path = "bodyfail"
    /\ result.value = printed[1]
    /\ OptGet(result.value, "status") = Num(200)
    /\ OptGet(result.value, "ok") = Bool(TRUE)
    /\ OptGet(result.value, "body") = Null
    /\ "set-cookie" \in DOMAIN OptGet(result.value, "headers").v


\* how fetch(url, init) reads its init: the method (GET by default), the
\* header entries (of a plain object or of a Headers instance), the body
RequestMethod(o) ==
    LET m == OptGet(o, "method") IN IF Nullish(m) THEN "GET" ELSE m.v

RequestHeaders(o) ==
    LET h == OptGet(o, "headers") IN IF Nullish(h) THEN NoProperties ELSE h.v

RequestBody(o) == Coalesce(OptGet(o, "body"), Null)

\* C14: in the stdin-mode pair, once the executor has called fetch it has
\* made exactly one request, whose url, method, headers and body are those of
\* the call (GET, no headers and no body for options left out), and the
\* descriptor the executor parsed is the one the bridge wrote
C14_RequestFidelity ==
    (bridge = "stdin" /\ worker = "stdin" /\ requests # <<>>) =>
        /\ Len(requests) = 1
        /\ launches = 1
        /\ JSONParse(cstdin).value = Obj([url |-> Str(url), options |-> choptions])
        /\ requests[1].url = url
        /\ RequestMethod(requests[1].options) = RequestMethod(options)
        /\ RequestHeaders(requests[1].options) = RequestHeaders(options)
        /\ RequestBody(requests[1].options) = RequestBody(options)


\* the step with which the call returns to its caller
Returns == pc # "done" /\ pc' = "done"

\* a step of the child, or of its launch
ChildStep == childVars' # childVars

\* C15: the call returns only when no child is running (the child has ended,
\* or none was started) and the returning step leaves the child as it is;
\* the child takes steps only while the call sits in the blocking launch;
\* the call never takes a second step after returning; and when it returns a
\* result whose error is null after a run of the executor, the executor has
\* before that received the response, read the body, written its one JSON
\* line and exited with code 0
C15_BlockingOrder ==
    [][ /\ Returns =>
               /\ cpc \notin Running
               /\ ~ChildStep
               /\ cpc = "none" => (launches = 0 \/ term.kind = "nospawn")
        /\ ChildStep => pc' \in {"waiting", "direct"}
        /\ pc = "done" => UNCHANGED vars
        /\ (Returns /\ path \in ExecutorPaths
                    /\ OptGet(result'.value, "error") = Null) =>
               /\ path = "success"
               /\ cpc = "ended"
               /\ term = Exit(0)
               /\ response # Undef
               /\ Len(printed) = 1
               /\ stdout = JSONStringify(printed[1]) \o "\n"
      ]_vars

\* a call that has returned the executor's success output: the child has
\* ended and its line is on stdout
C15_Witness ==
    /\ Done
    /\ path = "success"
    /\ cpc = "ended"
    /\ OptGet(result.value, "error") = Null
    /\ IsNum(OptGet(result.value, "status"))
    /\ stdout = JSONStringify(result.value) \o "\n"


\* The bridge is straight-line code: once called it reaches the launch, the
\* timer of spawnSync (timeout: 30000) fires on a child that is still
\* running, and the blocking launch returns once the child has ended.  No
\* step of the child is assumed: it may stay in fetch or in its own loop for
\* ever.
FairSpec ==
    /\ Spec
    /\ WF_vars(LaunchThrows \/ LaunchSpawnFails \/ LaunchChild)
    /\ WF_vars(Timeout)
    /\ WF_vars(BridgeReturn)

\* C16: every call returns, also when its child never ends on its own
C16_EventuallyReturns == (pc = "called") ~> Done


\* status null, statusText null, headers {}
NoStatus(v) ==
    /\ OptGet(v, "status") = Null
    /\ OptGet(v, "statusText") = Null
    /\ OptGet(v, "headers") = EmptyObj

\* the returned result is the parsed output of the child, as printed
ReturnedVerbatim == StdoutJson.ok /\ result.value = StdoutJson.value

\* the executor's body-read failure: the response's status, statusText and
\* headers, body null
IsBodyFailure(v) ==
    /\ path = "bodyfail"
    /\ OptGet(v, "status") = response.v.status
    /\ OptGet(v, "statusText") = response.v.statusText
    /\ OptGet(v, "headers") = Obj(CollectHeaders(response.v.headers))
    /\ OptGet(v, "body") = Null

\* C17: a returned result whose error is set has status null, statusText
\* null and headers {}, with these exceptions: a result the child printed is
\* returned as printed (of the executor's own outputs only the body-read
\* failure carries a status and headers, and its body is null); and after a
\* non-zero exit with parsed JSON that reports no error the bridge keeps the
\* parsed headers (and the stdin-mode bridge the parsed status and statusText
\* too, where the argument-mode bridge sets both to null)
C17_ErrorShape ==
    (Done /\ IsObj(result.value) /\ ~Nullish(OptGet(result.value, "error"))) =>
        /\ \/ NoStatus(result.value)
           \/ ReturnedVerbatim
           \/ /\ SpawnSucceeded
              /\ term # Exit(0)
              /\ StdoutJson.ok
              /\ OptGet(result.value, "headers")
                     = Coalesce(OptGet(StdoutJson.value, "headers"), EmptyObj)
              /\ OptGet(result.value, "status")
                     = IF bridge = "stdin"
                       THEN Coalesce(OptGet(StdoutJson.value, "status"), Null)
                       ELSE Null
              /\ OptGet(result.value, "statusText")
                     = IF bridge = "stdin"
                       THEN Coalesce(OptGet(StdoutJson.value, "statusText"), Null)
                       ELSE Null
        /\ path # "other" =>
               \/ NoStatus(result.value)
               \/ ReturnedVerbatim /\ IsBodyFailure(result.value)

\* C17 as the specification words it, reading every result that the child
\* printed and the bridge returned as printed as one reported by the executor:
\* status null, statusText null and headers {} in every other case (refuted
\* by the results the bridge builds after a non-zero exit)
C17_AsStated ==
    (Done /\ IsObj(result.value) /\ ~Nullish(OptGet(result.value, "error"))) =>
        \/ NoStatus(result.value)
        \/ ReturnedVerbatim

\* the argument-mode bridge after exit code 1 and a JSON line without error:
\* status and statusText null, the parsed headers kept
C17_Witness ==
    /\ Done
    /\ bridge = "arg"
    /\ RuleECase
    /\ StdoutJson.ok
    /\ OptGet(StdoutJson.value, "status") = Num(200)
    /\ OptGet(result.value, "status") = Null
    /\ OptGet(result.value, "headers") = Obj("content-type" :> Str("text/plain"))
    /\ IsStr(OptGet(result.value, "error"))


\* C18: a call launches at most once, and only from the one launch statement;
\* a child that has ended is not started again; the call's result is set
\* once, by the step that returns, whatever the outcome of the launch
C18_SingleLaunch ==
    [][ /\ launches' \in {launches, launches + 1}
        /\ launches' <= 1
        /\ launches' # launches => (pc = "called" /\ pc' = "waiting")
        /\ cpc = "ended" => cpc' = "ended"
        /\ term # NoTerm => term' = term
        /\ result' # result =>
               /\ result.kind = "none"
               /\ result'.kind = "return"
               /\ pc' = "done"
      ]_vars

\* a launch that timed out: one launch, one failed result, the call is over
C18_Witness ==
    /\ Done
    /\ launches = 1
    /\ term.kind = "timeout"
    /\ result.kind = "return"
    /\ IsStr(OptGet(result.value, "error"))
    /\ ~ENABLED Next


\* the request and the child's outcome of two calls are the same
SameCall(c, d) ==
    /\ c.bridge = d.bridge /\ c.url = d.url /\ c.options = d.options
    /\ c.how = d.how /\ c.out = d.out /\ c.errs = d.errs

StderrTexts ==
    { <<>>, <<LineDownload, LineUncaught>> }
    \cup {<<l>> : l \in {LineUnstable, LineCheck, LineDownload, LineCompile,
                         LineUncaught, LineModule, ""}}

\* what the call would have returned had its child left errs on stderr, all
\* else (spawn error, exit code, stdout) being the same
ResultWithStderr(errs) ==
    CallResult([IdleCall EXCEPT !.bridge = bridge, !.url = url,
                                !.options = options, !.how = term,
                                !.out = stdout, !.outBytes = stdoutBytes,
                                !.errs = errs])

\* status, statusText, ok, headers and body of a result
Core(v) ==
    << OptGet(v, "status"), OptGet(v, "statusText"), OptGet(v, "ok"),
       OptGet(v, "headers"), OptGet(v, "body") >>

\* C20: whatever the child wrote on stderr, a call whose child was launched
\* returns the same status, statusText, ok, headers and body, with an error
\* present or absent alike; a result returned as the child printed it is the
\* same altogether, so only the text of an error made up by the bridge
\* depends on stderr
C20_StderrCosmetic ==
    (Done /\ launches = 1) =>
        /\ result = ResultWithStderr(stderr)
        /\ \A errs \in StderrTexts :
               LET other == ResultWithStderr(errs)
               IN  /\ other.kind = result.kind
                   /\ Core(other.value) = Core(result.value)
                   /\ Nullish(OptGet(other.value, "error"))
                          <=> Nullish(OptGet(result.value, "error"))
                   /\ ReturnedVerbatim => other = result
                   /\ other # result =>
                          /\ IsStr(OptGet(other.value, "error"))
                          /\ IsStr(OptGet(result.value, "error"))

\* a child that failed with an uncaught error on stderr and nothing on
\* stdout: without that line the call would have returned another error
\* text, and the same status, statusText, ok, headers and body
C20_Witness ==
    /\ Done
    /\ launches = 1
    /\ term = Exit(1)
    /\ stdout = ""
    /\ stderr = <<LineUncaught>>
    /\ ResultWithStderr(<<>>) # result
    /\ Core(ResultWithStderr(<<>>).value) = Core(result.value)
    /\ OptGet(result.value, "status") = Null


\* the types of the six properties: status a number or null, statusText a
\* string or null, ok a boolean, headers an object, body a string or null,
\* error a string or null
HasFetchResultShape(v) ==
    /\ IsFetchResult(v)
    /\ v.v.status = Null \/ IsNum(v.v.status)
    /\ v.v.statusText = Null \/ IsStr(v.v.statusText)
    /\ v.v.ok.t = "boolean"
    /\ IsObj(v.v.headers)
    /\ v.v.body = Null \/ IsStr(v.v.body)
    /\ v.v.error = Null \/ IsStr(v.v.error)

\* C21: every value a call returns is an object with exactly the six
\* properties of a FetchResult, each of its type, whatever JSON the child
\* left on stdout
C21_FetchResultShape ==
    Done => (result.kind = "return" /\ HasFetchResultShape(result.value))


\* C22: a call whose child was launched without spawn error and did not
\* terminate with exit code 0 returns neither the result made up for "exited
\* successfully (code 0) but produced non-JSON stdout" (rule c) nor the
\* parsed stdout of a child that reports no error (rule b)
C22_ExitZeroBranchNeedsExitZero ==
    (Done /\ launches = 1 /\ ~SpawnFailed /\ term # Exit(0)) =>
        /\ result.value # NonJsonResult(CallDesc, stdout, Filtered)
        /\ ReturnedVerbatim => Truthy(OptGet(result.value, "error"))


\* C23: when the argument-mode bridge has launched the program at
\* ./mod.worker.ts with a non-empty url as its argument and that program has
\* run to its own exit, it has not taken an input-error path, it has made
\* one GET request to exactly that url, and a call that returns after its
\* success path returns the server's response
C23_ArgumentModePairing ==
    (bridge = "arg" /\ url # "" /\ path \in ExecutorPaths) =>
        /\ path \notin {"validation", "usage"}
        /\ cargs = <<url>>
        /\ Len(requests) = 1
        /\ requests[1].url = url
        /\ RequestMethod(requests[1].options) = "GET"
        /\ RequestHeaders(requests[1].options) = NoProperties
        /\ (Done /\ path = "success") =>
               /\ result = Returned(printed[1])
               /\ OptGet(result.value, "status") = response.v.status
               /\ OptGet(result.value, "error") = Null

====
